---- MODULE Spec2Model ----
(***************************************************************************)
(* Model of the expected-measurement helpers of attestation-level-manager: *)
(*   helpers/python/validate_cpu_types.py   (catalog validation)           *)
(*   helpers/python/expected_measurements.py (measure, merge, persist)     *)
(*                                                                         *)
(* Python strings are modelled as sequences of atoms.  An atom is either a *)
(* single character that the code inspects (digits, letters, blanks) or a  *)
(* literal fragment of the program text ("vcpu-sig=", "type:", ...) that   *)
(* the code only concatenates.  Concatenation is \o, so formatting,        *)
(* trimming, lower-casing and pattern matching are computed, not assumed.  *)
(* JSON values are tagged records [t, v].                                  *)
(***************************************************************************)
EXTENDS Integers, Sequences, FiniteSets, TLC

----------------------------------------------------------------------------
(* Bounds of the model.                                                    *)

\* longest catalog (cpu-types.json array) drawn as an input
MaxSpecs == 2

\* longest string entry handed to normalize_cpu_spec on its own
MaxLen == 4

----------------------------------------------------------------------------
(* Strings.                                                                *)

Lit(s) == <<s>>

\* the characters str.isspace() holds for, which str.strip() removes.  A
\* character TLA+ has no escape for is the atom that spells its Python escape.
Whitespace ==
    {" ", "\t", "\n", "\r", "\f", "\\x0b", "\\x1c", "\\x1d", "\\x1e", "\\x1f",
     "\\x85", "\\xa0", "\\u1680", "\\u2000", "\\u2001", "\\u2002", "\\u2003",
     "\\u2004", "\\u2005", "\\u2006", "\\u2007", "\\u2008", "\\u2009", "\\u200a",
     "\\u2028", "\\u2029", "\\u202f", "\\u205f", "\\u3000"}

HexDigits == {"0", "1", "2", "3", "4", "5", "6", "7", "8", "9",
              "a", "b", "c", "d", "e", "f", "A", "B", "C", "D", "E", "F"}

UpperCase == <<"A", "B", "C", "D", "E", "F", "G", "H", "I", "J", "K", "L", "M",
               "N", "O", "P", "Q", "R", "S", "T", "U", "V", "W", "X", "Y", "Z">>

LowerCase == <<"a", "b", "c", "d", "e", "f", "g", "h", "i", "j", "k", "l", "m",
               "n", "o", "p", "q", "r", "s", "t", "u", "v", "w", "x", "y", "z">>

\* str.lower() on one character
LowerChar(c) ==
    IF \E i \in 1..Len(UpperCase) : UpperCase[i] = c
    THEN LowerCase[CHOOSE i \in 1..Len(UpperCase) : UpperCase[i] = c]
    ELSE c

\* str.lower()
Lower(s) == [i \in 1..Len(s) |-> LowerChar(s[i])]

\* str.strip(): drop leading and trailing whitespace
RECURSIVE LStrip(_)
LStrip(s) == IF s # <<>> /\ Head(s) \in Whitespace THEN LStrip(Tail(s)) ELSE s

RECURSIVE RStrip(_)
RStrip(s) ==
    IF s # <<>> /\ s[Len(s)] \in Whitespace
    THEN RStrip(SubSeq(s, 1, Len(s) - 1))
    ELSE s

Strip(s) == RStrip(LStrip(s))

\* mutant: the pattern is compiled with re.IGNORECASE
HexMatch_any_case(s) ==
    /\ Len(s) >= 3
    /\ s[1] = "0"
    /\ s[2] \in {"x", "X"}
    /\ \A i \in 3..Len(s) : s[i] \in HexDigits

\* HEX_RE = ^0x[0-9a-fA-F]+$ applied with re.match to a stripped string
HexMatch(s) ==
    /\ Len(s) >= 3
    /\ s[1] = "0"
    /\ s[2] = "x"
    /\ \A i \in 3..Len(s) : s[i] \in HexDigits

DigitChars == <<"0", "1", "2", "3", "4", "5", "6", "7", "8", "9",
                "a", "b", "c", "d", "e", "f">>

\* digits of n >= 0 in the given base, most significant first
RECURSIVE Digits(_, _)
Digits(n, base) ==
    IF n < base
    THEN <<DigitChars[n + 1]>>
    ELSE Digits(n \div base, base) \o <<DigitChars[(n % base) + 1]>>

\* str(n) for an int n
DecOf(n) == IF n < 0 THEN <<"-">> \o Digits(-n, 10) ELSE Digits(n, 10)

\* hex(n) for an int n >= 0
HexOf(n) == <<"0", "x">> \o Digits(n, 16)

----------------------------------------------------------------------------
(* JSON values.                                                            *)

JStr(s) == [t |-> "str", v |-> s]
JInt(n) == [t |-> "int", v |-> n]
JObj(f) == [t |-> "obj", v |-> f]
JList(q) == [t |-> "list", v |-> q]
JNull == [t |-> "null", v |-> 0]

\* a path that cannot be opened or whose text is not JSON
Unreadable == [t |-> "unreadable", v |-> 0]

\* a Python dict literal with no keys
EmptyDict == <<>>

----------------------------------------------------------------------------
(* validate_cpu_types.py: normalisation and identity.                      *)

Ok(x) == [ok |-> TRUE, val |-> x]
Die(m) == [ok |-> FALSE, msg |-> Lit(m)]

FmsKeys == <<"family", "model", "stepping">>

\* normalize_cpu_spec: Ok(spec) or Die(message)
normalize_cpu_spec(entry) ==
    IF entry.t = "str"
    THEN LET s == Strip(entry.v) IN
         IF s = <<>> THEN Die("cpu-types.json contains an empty string entry")
         ELSE IF HexMatch(s) THEN Ok([kind |-> "sig", sig |-> Lower(s)])
         ELSE Ok([kind |-> "type", type |-> s])
    ELSE IF entry.t = "obj"
    THEN LET d == entry.v IN
         IF "vcpu_sig" \in DOMAIN d \/ "sig" \in DOMAIN d
         THEN LET val == IF "vcpu_sig" \in DOMAIN d THEN d["vcpu_sig"] ELSE d["sig"] IN
              IF val.t = "int"
              THEN IF val.v < 0
                   THEN Die("vcpu_sig integer must be non-negative")
                   ELSE Ok([kind |-> "sig", sig |-> Lower(HexOf(val.v))])
              ELSE IF val.t = "str" /\ HexMatch(Strip(val.v))
              THEN Ok([kind |-> "sig", sig |-> Lower(Strip(val.v))])
              ELSE Die("vcpu_sig must be a hex string like 0x8b10 (or non-negative int)")
         ELSE IF \A i \in 1..3 : FmsKeys[i] \in DOMAIN d
         THEN IF \E i \in 1..3 : d[FmsKeys[i]].t # "int" \/ d[FmsKeys[i]].v < 0
              THEN LET i == CHOOSE j \in 1..3 :
                                /\ d[FmsKeys[j]].t # "int" \/ d[FmsKeys[j]].v < 0
                                /\ \A h \in 1..(j - 1) :
                                       d[FmsKeys[h]].t = "int" /\ d[FmsKeys[h]].v >= 0
                   IN IF d[FmsKeys[i]].t # "int"
                      THEN [ok |-> FALSE, msg |-> <<FmsKeys[i], " must be an int">>]
                      ELSE [ok |-> FALSE, msg |-> <<FmsKeys[i], " must be non-negative">>]
              ELSE Ok([kind |-> "fms", family |-> d["family"].v,
                       model |-> d["model"].v, stepping |-> d["stepping"].v])
         ELSE Die("cpu-types.json dict entries must be either {family,model,stepping} or {vcpu_sig}/ {sig}")
    ELSE Die("cpu-types.json entries must be strings or objects")

\* spec_id: the identity string used for the uniqueness check
spec_id(spec) ==
    IF spec.kind = "type" THEN Lit("type:") \o spec.type
    ELSE IF spec.kind = "sig" THEN Lit("sig:") \o spec.sig
    ELSE IF spec.kind = "fms"
    THEN Lit("fms:") \o DecOf(spec.family) \o Lit(":") \o DecOf(spec.model)
         \o Lit(":") \o DecOf(spec.stepping)
    ELSE Lit("unknown")

\* spec_id_human: the label a spec is printed and persisted under
spec_id_human(spec) ==
    IF spec.kind = "type" THEN spec.type
    ELSE IF spec.kind = "sig" THEN Lit("vcpu-sig=") \o spec.sig
    ELSE IF spec.kind = "fms"
    THEN Lit("vcpu-family=") \o DecOf(spec.family) \o Lit(",vcpu-model=")
         \o DecOf(spec.model) \o Lit(",vcpu-stepping=") \o DecOf(spec.stepping)
    ELSE Lit("unknown")

\* load_json: Ok(value) or Die
load_json(file) ==
    IF file.t = "unreadable" THEN Die("Failed to read JSON") ELSE Ok(file)

\* load_legal_cpu_types: Ok(trimmed, de-duplicated list) or Die
RECURSIVE legal_loop(_, _, _)
legal_loop(data, i, out) ==
    IF i > Len(data) THEN out
    ELSE LET v == Strip(data[i].v) IN
         IF \E j \in 1..Len(out) : out[j] = v
         THEN legal_loop(data, i + 1, out)
         ELSE legal_loop(data, i + 1, Append(out, v))

load_legal_cpu_types(file) ==
    LET r == load_json(file) IN
    IF ~r.ok THEN r
    ELSE IF r.val.t # "list" \/ r.val.v = <<>>
    THEN Die("legal-cpu-types.json must be a non-empty JSON list of strings")
    ELSE IF \E i \in 1..Len(r.val.v) :
                r.val.v[i].t # "str" \/ Strip(r.val.v[i].v) = <<>>
    THEN Die("legal-cpu-types.json contains invalid entries (expect non-empty strings)")
    ELSE Ok(legal_loop(r.val.v, 1, <<>>))

\* mutant: type names are compared with the allowlist without regard to case
IsLegal_ignores_case(spec, legal) ==
    spec.kind = "type" => Lower(spec.type) \in {Lower(l) : l \in legal}

\* the legality check of validate_cpu_types.main, for one normalised spec
IsLegal(spec, legal) == spec.kind = "type" => spec.type \in legal

\* the loop of validate_cpu_types.main over the catalog entries
RECURSIVE validate_loop(_, _, _, _)
validate_loop(data, i, seen, legal) ==
    IF i > Len(data) THEN Ok(0)
    ELSE LET n == normalize_cpu_spec(data[i]) IN
         IF ~n.ok THEN n
         ELSE LET sid == spec_id(n.val) IN
              IF sid \in seen
              THEN Die("cpu-types.json contains duplicate cpu specs (not allowed)")
              ELSE IF ~IsLegal(n.val, legal)
              THEN Die("Illegal cpu type string in cpu-types.json")
              ELSE validate_loop(data, i + 1, seen \cup {sid}, legal)

\* validate_cpu_types.main: Ok (exit 0) or Die (exit 2)
validate_main(cpu_types_file, legal_file) ==
    LET c == load_json(cpu_types_file) IN
    IF ~c.ok THEN c
    ELSE IF c.val.t # "list" \/ c.val.v = <<>>
    THEN Die("cpu-types.json must be a non-empty JSON list")
    ELSE LET l == load_legal_cpu_types(legal_file) IN
         IF ~l.ok THEN l
         ELSE validate_loop(c.val.v, 1, {}, {l.val[j] : j \in 1..Len(l.val)})

----------------------------------------------------------------------------
(* expected_measurements.py: catalog loading.                              *)

\* mutant: an identity that was seen before is accepted again
RECURSIVE specs_loop_keeps_duplicates(_, _, _, _)
specs_loop_keeps_duplicates(data, i, seen, specs) ==
    IF i > Len(data) THEN Ok(specs)
    ELSE LET n == normalize_cpu_spec(data[i]) IN
         IF ~n.ok THEN n
         ELSE specs_loop_keeps_duplicates(data, i + 1, seen, Append(specs, n.val))

\* the loop of load_cpu_specs over the catalog entries
RECURSIVE specs_loop(_, _, _, _)
specs_loop(data, i, seen, specs) ==
    IF i > Len(data) THEN Ok(specs)
    ELSE LET n == normalize_cpu_spec(data[i]) IN
         IF ~n.ok THEN n
         ELSE LET sid == spec_id(n.val) IN
              IF sid \in seen
              THEN Die("cpu-types.json contains duplicate cpu specs (not allowed)")
              ELSE specs_loop(data, i + 1, seen \cup {sid}, Append(specs, n.val))

\* load_cpu_specs: Ok(list of normalised specs) or Die
load_cpu_specs(file) ==
    LET r == load_json(file) IN
    IF ~r.ok THEN r
    ELSE IF r.val.t # "list" \/ r.val.v = <<>>
    THEN Die("CPU types JSON must be a non-empty list")
    ELSE specs_loop(r.val.v, 1, {}, <<>>)

----------------------------------------------------------------------------
(* expected_measurements.py: run_measure.                                  *)

\* the argument list run_measure builds for one spec (lines 97-125)
base_cmd(measure_py, vcpus, spec, ovmf) ==
    <<Lit("python3"), measure_py, Lit("--mode"), Lit("snp"), Lit("--vmm-type"),
      Lit("QEMU"), Lit("--vcpus"), DecOf(vcpus), Lit("--ovmf"), ovmf,
      Lit("--output-format"), Lit("hex")>>
    \o (IF spec.kind = "type" THEN <<Lit("--vcpu-type"), spec.type>>
        ELSE IF spec.kind = "sig" THEN <<Lit("--vcpu-sig"), spec.sig>>
        ELSE <<Lit("--vcpu-family"), DecOf(spec.family), Lit("--vcpu-model"),
               DecOf(spec.model), Lit("--vcpu-stepping"), DecOf(spec.stepping)>>)

\* mutant: only the kernel is required at levels 3 and 4
measure_dies_ignores_initrd(al, spec, kernel, initrd) ==
    \/ spec.kind \notin {"type", "sig", "fms"}
    \/ al \in {3, 4} /\ kernel = <<>>
    \/ al \notin {2, 3, 4}

\* run_measure dies before the tool is started (lines 126-127, 134-135, 138)
measure_dies(al, spec, kernel, initrd) ==
    \/ spec.kind \notin {"type", "sig", "fms"}
    \/ al \in {3, 4} /\ (kernel = <<>> \/ initrd = <<>>)
    \/ al \notin {2, 3, 4}

\* mutant: at level 2 the boot files are passed on when a kernel is given
measure_cmd_appends_when_given(measure_py, al, vcpus, spec, ovmf, kernel, initrd, append) ==
    base_cmd(measure_py, vcpus, spec, ovmf)
    \o (IF al = 2 /\ kernel = <<>> THEN <<>>
        ELSE <<Lit("--kernel"), kernel, Lit("--initrd"), initrd,
               Lit("--append"), append>>)

\* the complete argument list handed to subprocess.run (lines 97-138)
measure_cmd(measure_py, al, vcpus, spec, ovmf, kernel, initrd, append) ==
    base_cmd(measure_py, vcpus, spec, ovmf)
    \o (IF al = 2 THEN <<>>
        ELSE <<Lit("--kernel"), kernel, Lit("--initrd"), initrd,
               Lit("--append"), append>>)

\* repr() of one character of a str inside the quote q
ReprChar(c, q) ==
    IF c = "\\" THEN <<"\\", "\\">>
    ELSE IF c = q THEN <<"\\", q>>
    ELSE IF c = "\n" THEN <<"\\", "n">>
    ELSE IF c = "\r" THEN <<"\\", "r">>
    ELSE IF c = "\t" THEN <<"\\", "t">>
    ELSE IF c = "\f" THEN Lit("\\x0c")
    ELSE <<c>>

RECURSIVE ReprChars(_, _)
ReprChars(s, q) ==
    IF s = <<>> THEN <<>> ELSE ReprChar(Head(s), q) \o ReprChars(Tail(s), q)

\* repr() of a str: double quotes when it holds a single quote and no double
\* quote; backslash, the quote and unprintable characters are escaped
ReprStr(s) ==
    LET q == IF /\ \E i \in 1..Len(s) : s[i] = "'"
                /\ ~ \E i \in 1..Len(s) : s[i] = "\""
             THEN "\"" ELSE "'"
    IN <<q>> \o ReprChars(s, q) \o <<q>>

\* repr() of a normalised spec dict, as the f-string of line 143 prints it
ReprSpec(spec) ==
    IF spec.kind = "type"
    THEN Lit("{'kind': 'type', 'type': ") \o ReprStr(spec.type) \o Lit("}")
    ELSE IF spec.kind = "sig"
    THEN Lit("{'kind': 'sig', 'sig': ") \o ReprStr(spec.sig) \o Lit("}")
    ELSE Lit("{'kind': 'fms', 'family': ") \o DecOf(spec.family)
         \o Lit(", 'model': ") \o DecOf(spec.model)
         \o Lit(", 'stepping': ") \o DecOf(spec.stepping) \o Lit("}")

\* str(e) of the RuntimeError raised on a non-zero exit (lines 142-144)
measure_error(al, spec, res) ==
    Lit("sev-snp-measure.py failed for al=") \o DecOf(al) \o Lit(" spec=")
    \o ReprSpec(spec) \o Lit(" rc=") \o DecOf(res.returncode) \o <<"\n">>
    \o Lit("STDERR:") \o <<"\n">> \o res.stderr

----------------------------------------------------------------------------
(* expected_measurements.py: the record store.                             *)

Absent == [t |-> "absent", v |-> 0]

\* a temporary file that holds only a prefix of the serialised document
Partial == [t |-> "partial", v |-> 0]

\* load_original: the dict main works on
load_original(file) ==
    IF file.t = "obj" THEN file.v ELSE EmptyDict

owned_keys == {"timestamp_utc", "mode", "vmm_type", "al", "vcpus", "ovmf",
               "kernel", "initrd", "append", "cpu_types_config", "cpu_types",
               "all", "errors", "measurements"}

\* mutant: the record is rebuilt from the owned keys alone
merge_fields_owned_only(existing, update) ==
    [k \in owned_keys \cap (DOMAIN existing \cup DOMAIN update) |->
        IF k \in DOMAIN update THEN update[k] ELSE existing[k]]

\* mutant: the measurement maps of the update are merged into the existing ones
merge_fields_union(existing, update) ==
    [k \in DOMAIN existing \cup (owned_keys \cap DOMAIN update) |->
        IF k \in owned_keys /\ k \in DOMAIN update
        THEN IF k \in {"measurements", "errors"} /\ k \in DOMAIN existing
             THEN [l \in DOMAIN existing[k] \cup DOMAIN update[k] |->
                      IF l \in DOMAIN update[k] THEN update[k][l] ELSE existing[k][l]]
             ELSE update[k]
        ELSE existing[k]]

\* lines 202-204: the loop over owned_keys assigns update[k] into the dict
\* `merged`, whose fields are `existing` when the loop starts
merge_fields(existing, update) ==
    [k \in DOMAIN existing \cup (owned_keys \cap DOMAIN update) |->
        IF k \in owned_keys /\ k \in DOMAIN update THEN update[k] ELSE existing[k]]

\* The objects of one call of merge_vm_record_strict are the cells of a heap
\* (a sequence of JSON values); a name of the function is bound to the index
\* of a cell.  Cell 1 is the object the caller passed as `existing`.

\* lines 180-181: a value that is not a dict is left alone and the local name
\* `existing` is bound to a new empty dict
rebind_non_dict(heap, ref) ==
    IF heap[ref].t = "obj" THEN [heap |-> heap, ref |-> ref]
    ELSE [heap |-> Append(heap, JObj(EmptyDict)), ref |-> Len(heap) + 1]

\* mutant: merged = existing, the same object under a second name
copy_dict_aliased(heap, ref) == [heap |-> heap, ref |-> ref]

\* line 183, merged = dict(existing): a new object with the same fields
copy_dict(heap, ref) == [heap |-> Append(heap, heap[ref]), ref |-> Len(heap) + 1]

\* the heap when merge_vm_record_strict(existing, update) returns, and the
\* cell it returns
merge_call(existing, update) ==
    LET local == rebind_non_dict(<<existing>>, 1)
        merged == copy_dict(local.heap, local.ref)
    IN [heap |-> [merged.heap EXCEPT ![merged.ref] = JObj(merge_fields(@.v, update))],
        ref |-> merged.ref]

\* merge_vm_record_strict: existing is any JSON value, update a dict
merge_vm_record_strict(existing, update) ==
    LET r == merge_call(existing, update) IN r.heap[r.ref]

\* the object the caller passed as `existing` when the call has returned
existing_after_merge(existing, update) == merge_call(existing, update).heap[1]

\* d.get(key, default)
dict_get(d, key, default) == IF key \in DOMAIN d THEN d[key] ELSE default

\* d[key] = value
dict_set(d, key, value) ==
    [k \in DOMAIN d \cup {key} |-> IF k = key THEN value ELSE d[k]]

\* mutant: only the entry of the run's title is handed to write_json
merged_document_only_touched(file, vm_title, update) ==
    LET original == load_original(file) IN
    dict_set(EmptyDict, vm_title,
             merge_vm_record_strict(dict_get(original, vm_title, JObj(EmptyDict)),
                                    update))

\* lines 286-289 of main: the document that is handed to write_json
merged_document(file, vm_title, update) ==
    LET original == load_original(file) IN
    dict_set(original, vm_title,
             merge_vm_record_strict(dict_get(original, vm_title, JObj(EmptyDict)),
                                    update))

\* err.replace("\n", "\\n")
RECURSIVE escape_newlines(_)
escape_newlines(s) ==
    IF s = <<>> THEN <<>>
    ELSE (IF Head(s) = "\n" THEN <<"\\", "n">> ELSE <<Head(s)>>)
         \o escape_newlines(Tail(s))

\* the string one iteration of lines 294-300 hands to print
print_line(r) ==
    IF r.m.t # "null"
    THEN r.cpu_type \o <<"\t">> \o r.m.v
    ELSE r.cpu_type \o <<"\t">> \o Lit("ERROR") \o <<"\t">> \o escape_newlines(r.err.v)

\* time.strftime("%Y-%m-%dT%H:%M:%SZ", time.gmtime()) at clock reading n
timestamp(n) == Lit("2026-01-01T00:00:0") \o DecOf(n) \o Lit("Z")

\* the update_record dict of main (lines 269-283)
update_record(a, specs, measurements, errors, n) ==
    [timestamp_utc |-> timestamp(n), mode |-> Lit("snp"), vmm_type |-> Lit("QEMU"),
     al |-> a.al, vcpus |-> a.vcpus, ovmf |-> a.ovmf, kernel |-> a.kernel,
     initrd |-> a.initrd, append |-> a.append,
     cpu_types_config |-> Lit("/abs/") \o a.types_path,
     cpu_types |-> specs, measurements |-> measurements, errors |-> errors]

----------------------------------------------------------------------------
(* Inputs the runs are drawn from.                                         *)

Procs == {1, 2}

Milan == <<"E", "P", "Y", "C", "-", "M", "i", "l", "a", "n">>
SigLabelName == <<"vcpu-sig=", "0", "x", "0", "a">>
PaddedMilan == <<" ">> \o Milan \o <<"\r", "\n">>
TwoLineMilan == <<"E", "P", "Y", "C", "\n", "M", "i", "l", "a", "n">>

\* raw entries of cpu-types.json
Entries ==
    { JStr(PaddedMilan),                            \* a type name, padded
      JStr(<<"0", "x", "0", "A">>),                 \* a hex string
      JObj([vcpu_sig |-> JStr(<<"0", "x", "0", "a">>)]),  \* the same signature
      JObj([family |-> JInt(25), model |-> JInt(1), stepping |-> JInt(2)]),
      JStr(SigLabelName),                           \* a type name that reads like a label
      JStr(TwoLineMilan),                           \* a type name with a line break inside
      JStr(<<" ", "\n">>) }                         \* empty after trimming

RECURSIVE SeqsUpTo(_, _)
SeqsUpTo(S, n) ==
    IF n = 0 THEN {<<>>}
    ELSE LET shorter == SeqsUpTo(S, n - 1) IN
         shorter \cup {Append(q, e) : q \in {r \in shorter : Len(r) = n - 1}, e \in S}

\* contents of the file at --types-path
CatalogFiles ==
    {JList(q) : q \in SeqsUpTo(Entries, MaxSpecs)} \cup {Unreadable, JObj(EmptyDict)}

\* an allowlist without EPYC-Milan as the catalogs write it; the allowlist on
\* disk when expected_measurements.py is run on its own
GenoaAllowlist ==
    JList(<<JStr(Lit("EPYC-Genoa")),
            JStr(<<"e", "p", "y", "c", "-", "m", "i", "l", "a", "n">>)>>)

\* contents of legal-cpu-types.json
LegalFiles ==
    { JList(<<JStr(Milan), JStr(Milan \o <<" ">>), JStr(SigLabelName)>>),
      GenoaAllowlist,
      JList(<<JStr(Milan), JInt(7)>>),
      Unreadable }

\* attestation level with the boot files given on the command line
BootParams ==
    { [al |-> 2, kernel |-> Lit("/vmlinuz"), initrd |-> Lit("/initrd"),
       append |-> Lit("console=ttyS0")],
      [al |-> 2, kernel |-> <<>>, initrd |-> <<>>, append |-> <<>>],
      [al |-> 3, kernel |-> Lit("/vmlinuz"), initrd |-> Lit("/initrd"),
       append |-> Lit("console=ttyS0")],
      [al |-> 3, kernel |-> <<>>, initrd |-> Lit("/initrd"), append |-> <<>>],
      [al |-> 4, kernel |-> Lit("/vmlinuz"), initrd |-> Lit("/initrd"),
       append |-> <<>>],
      [al |-> 4, kernel |-> Lit("/vmlinuz"), initrd |-> <<>>, append |-> <<>>] }

Titles == {"vm1", "vm2"}

\* argparse namespace of a run, the content of legal-cpu-types.json on disk,
\* and how the run is started: through validate_cpu_types.py first
\* (validator = TRUE) or expected_measurements.py on its own
ArgsOf(title, boot, types, legal, validator) ==
    [vm_title |-> title, al |-> boot.al, kernel |-> boot.kernel,
     initrd |-> boot.initrd, append |-> boot.append, vcpus |-> 4,
     ovmf |-> Lit("/OVMF.fd"), types_path |-> Lit("cpu-types.json"),
     measure_py |-> Lit("/sev-snp-measure.py"), types |-> types, legal |-> legal,
     validator |-> validator]

\* every command line: through the validator with any allowlist file, or
\* expected_measurements.py alone
AllArgs ==
    {ArgsOf(t, b, c, l, TRUE) : t \in Titles, b \in BootParams, c \in CatalogFiles,
                                l \in LegalFiles}
    \cup {ArgsOf(t, b, c, GenoaAllowlist, FALSE) : t \in Titles, b \in BootParams,
                                                   c \in CatalogFiles}

NoArgs == ArgsOf("", [al |-> 2, kernel |-> <<>>, initrd |-> <<>>, append |-> <<>>],
                 Unreadable, Unreadable, FALSE)

\* str(e) of the UnicodeDecodeError subprocess.run(..., text=True) raises when
\* the output of the tool is not UTF-8
DecodeError ==
    Lit("'utf-8' codec can't decode byte 0xff in position 0: invalid start byte")

\* how subprocess.run (line 140) can end: the tool exits 0 with the hex on
\* stdout, alone or after a line of other output, the tool exits non-zero, or
\* subprocess.run itself raises (exc holds str(e), here for a tool that exits
\* 0 with output that is not UTF-8)
ToolResults ==
    { [returncode |-> 0, stdout |-> <<"a", "1", "\r", "\n">>, stderr |-> <<>>,
       exc |-> <<>>],
      [returncode |-> 0, stdout |-> <<"warning", "\n", "a", "1", "\n">>,
       stderr |-> <<>>, exc |-> <<>>],
      [returncode |-> 1, stdout |-> <<>>,
       stderr |-> <<"unsupported", "\n", "cpu", "\n">>, exc |-> <<>>],
      [returncode |-> 0, stdout |-> <<>>, stderr |-> <<>>, exc |-> DecodeError] }

\* a record an earlier run left for a title, with a caller's annotations
OldSpec == [kind |-> "type", type |-> Lit("EPYC-Old")]
MilanSpec == [kind |-> "type", type |-> Milan]

OldRecord ==
    merge_fields(
        [note |-> Lit("keep me"), owner |-> Lit("ops")],
        update_record(
            ArgsOf("vm1", [al |-> 2, kernel |-> <<>>, initrd |-> <<>>, append |-> <<>>],
                   Unreadable, Unreadable, FALSE),
            <<OldSpec, MilanSpec>>,
            (Lit("EPYC-Old") :> [cpu_spec |-> OldSpec, measurement_hex |-> Lit("0ld")]),
            (Milan :> measure_error(2, MilanSpec,
                        [returncode |-> -9, stdout |-> <<>>, stderr |-> <<>>])),
            0))

\* contents of the file at --out-json before the run
InitStores ==
    { Absent,
      Unreadable,
      JList(<<>>),
      JObj([vm1 |-> JObj(OldRecord), vm3 |-> JObj([note |-> Lit("other")])]),
      JObj([vm1 |-> JStr(Lit("not a record")), vm2 |-> JObj(OldRecord)]) }

----------------------------------------------------------------------------
(* State.                                                                  *)

VARIABLES
    store,              \* the file at --out-json
    tmpf,               \* tmpf[p]: the temporary file process p created with mkstemp
    now,                \* the clock
    pc,                 \* pc[p]: where process p is
    args,               \* args[p]: the command line of the run
    specs,              \* specs[p]: the list load_cpu_specs returned
    idx,                \* idx[p]: position of the loop of main in specs (1-based)
    measurements,       \* measurements[p]: dict label -> {cpu_spec, measurement_hex}
    errors,             \* errors[p]: dict label -> message
    results_for_print,  \* results_for_print[p]: list of (label, hex, err)
    update_rec,         \* update_rec[p]: the update_record dict main built
    original,           \* original[p]: the document main hands to write_json
    wj,                 \* wj[p]: write_json's locals fd, tmp_path (TRUE: not None) and
                        \*        raised (an exception is propagating)
    rc,                 \* rc[p]: exit status of the process, -1 while it runs
    stdout,             \* stdout[p]: lines printed
    calls,              \* calls[p]: argument lists subprocess.run was called with
    store_at_start,     \* store_at_start[p]: the file at --out-json when the run began
    minit,              \* SpecMerge: the VM entry before the first merge
    mupd,               \* SpecMerge: the update of the latest merge
    mrec,               \* SpecMerge: the VM entry after the latest merge
    mexisting,          \* SpecMerge: the `existing` argument of the latest merge
    mexisting_after,    \* SpecMerge: the same object when the call has returned
    nentry,             \* SpecNorm: a raw catalog entry
    nresult,            \* SpecNorm: what normalize_cpu_spec made of it
    cmd_calls           \* SpecCmd: the calls of run_measure made so far, each with
                        \*          its arguments and what it came to

fsVars == <<store, tmpf>>
mergeVars == <<minit, mupd, mrec, mexisting, mexisting_after, nentry, nresult,
              cmd_calls>>
docVars == <<update_rec, original>>
loopVars == <<specs, idx, measurements, errors, results_for_print, calls>>
vars == <<store, tmpf, now, pc, args, specs, idx, measurements, errors,
          results_for_print, update_rec, original, wj, rc, stdout, calls,
          store_at_start, mergeVars>>

\* no function-level call has been made
NoCall ==
    /\ mexisting = JNull
    /\ mexisting_after = JNull
    /\ nentry = JNull
    /\ nresult = JNull
    /\ cmd_calls = <<>>

WjIdle == [fd |-> FALSE, tmp_path |-> FALSE, raised |-> FALSE]

InitProc ==
    /\ pc = [p \in Procs |-> "idle"]
    /\ args = [p \in Procs |-> NoArgs]
    /\ specs = [p \in Procs |-> <<>>]
    /\ idx = [p \in Procs |-> 1]
    /\ measurements = [p \in Procs |-> EmptyDict]
    /\ errors = [p \in Procs |-> EmptyDict]
    /\ results_for_print = [p \in Procs |-> <<>>]
    /\ update_rec = [p \in Procs |-> EmptyDict]
    /\ original = [p \in Procs |-> EmptyDict]
    /\ wj = [p \in Procs |-> WjIdle]
    /\ rc = [p \in Procs |-> -1]
    /\ stdout = [p \in Procs |-> <<>>]
    /\ calls = [p \in Procs |-> <<>>]
    /\ store_at_start = [p \in Procs |-> Absent]

Init ==
    /\ store \in InitStores
    /\ tmpf = [p \in Procs |-> Absent]
    /\ now = 0
    /\ InitProc
    /\ minit = JObj(EmptyDict)
    /\ mupd = EmptyDict
    /\ mrec = JObj(EmptyDict)
    /\ NoCall

----------------------------------------------------------------------------
(* Actions of one process.                                                 *)

\* the process ends with exit status code
Exit(p, code) ==
    /\ pc' = [pc EXCEPT ![p] = "exit"]
    /\ rc' = [rc EXCEPT ![p] = code]

\* the caller (alman.sh) starts expected_measurements.py only if the
\* validator exited with status 0
gate_passes(validation) == validation.ok

\* the run of process p goes through the validator
gated(p) == args[p].validator

\* a run is started: through the validator, or expected_measurements.py alone
Start(p, A) ==
    /\ pc[p] = "idle"
    /\ \E a \in A :
          /\ args' = [args EXCEPT ![p] = a]
          /\ pc' = [pc EXCEPT ![p] = IF a.validator THEN "validate"
                                     ELSE "load_specs"]
    /\ now' = now + 1
    /\ store_at_start' = [store_at_start EXCEPT ![p] = store]
    /\ UNCHANGED <<fsVars, loopVars, docVars, wj, rc, stdout, mergeVars>>

\* validate_cpu_types.main
Validate(p) ==
    /\ pc[p] = "validate"
    /\ IF gate_passes(validate_main(args[p].types, args[p].legal))
       THEN pc' = [pc EXCEPT ![p] = "load_specs"] /\ rc' = rc
       ELSE Exit(p, 2)
    /\ UNCHANGED <<fsVars, now, args, loopVars, docVars, wj, stdout,
                   store_at_start, mergeVars>>

\* main, line 249
LoadSpecs(p) ==
    /\ pc[p] = "load_specs"
    /\ LET r == load_cpu_specs(args[p].types) IN
       IF r.ok
       THEN /\ specs' = [specs EXCEPT ![p] = r.val]
            /\ pc' = [pc EXCEPT ![p] = "measure"]
            /\ rc' = rc
       ELSE /\ Exit(p, 2)
            /\ specs' = specs
    /\ UNCHANGED <<fsVars, now, args, idx, measurements, errors,
                   results_for_print, calls, docVars, wj, stdout, store_at_start, mergeVars>>

\* main, lines 257-259, and run_measure, lines 97-140: the next spec of the
\* loop is taken, run_measure builds the argument list or dies, and
\* subprocess.run starts the tool and waits for it
Invoke(p) ==
    /\ pc[p] = "measure"
    /\ idx[p] <= Len(specs[p])
    /\ LET a == args[p]
           spec == specs[p][idx[p]]
       IN
       IF measure_dies(a.al, spec, a.kernel, a.initrd)
       THEN /\ Exit(p, 2)
            /\ calls' = calls
       ELSE /\ calls' = [calls EXCEPT ![p] =
                          Append(@, measure_cmd(a.measure_py, a.al, a.vcpus, spec,
                                                a.ovmf, a.kernel, a.initrd, a.append))]
            /\ pc' = [pc EXCEPT ![p] = "tool"]
            /\ rc' = rc
    /\ UNCHANGED <<fsVars, now, args, specs, idx, measurements, errors,
                   results_for_print, docVars, wj, stdout, store_at_start, mergeVars>>

\* mutant: the loop of main is left at the first failed measurement
ToolEnds_stops_at_failure(p, R) ==
    /\ pc[p] = "tool"
    /\ LET a == args[p]
           spec == specs[p][idx[p]]
           label == spec_id_human(spec)
       IN
       \E res \in R :
          /\ IF res.exc = <<>> /\ res.returncode = 0
             THEN LET m == Strip(res.stdout) IN
                  /\ measurements' = [measurements EXCEPT ![p] =
                        dict_set(@, label, [cpu_spec |-> spec, measurement_hex |-> m])]
                  /\ results_for_print' = [results_for_print EXCEPT ![p] =
                        Append(@, [cpu_type |-> label, m |-> JStr(m), err |-> JNull])]
                  /\ errors' = errors
             ELSE LET err == IF res.exc # <<>> THEN res.exc
                             ELSE measure_error(a.al, spec, res) IN
                  /\ errors' = [errors EXCEPT ![p] = dict_set(@, label, err)]
                  /\ results_for_print' = [results_for_print EXCEPT ![p] =
                        Append(@, [cpu_type |-> label, m |-> JNull, err |-> JStr(err)])]
                  /\ measurements' = measurements
          /\ idx' = [idx EXCEPT ![p] =
                        IF res.exc = <<>> /\ res.returncode = 0 THEN @ + 1
                        ELSE Len(specs[p]) + 1]
    /\ pc' = [pc EXCEPT ![p] = "measure"]
    /\ UNCHANGED <<fsVars, now, args, specs, calls, docVars, wj, rc, stdout,
                   store_at_start, mergeVars>>

\* run_measure, lines 140-145, and main, lines 259-267: subprocess.run ends
\* with one of the results R; run_measure returns the trimmed stdout, or
\* raises (its own RuntimeError on a non-zero exit, or what subprocess.run
\* raised) and the `except Exception` of line 263 records str(e); the loop
\* goes on to the next spec
ToolEnds(p, R) ==
    /\ pc[p] = "tool"
    /\ LET a == args[p]
           spec == specs[p][idx[p]]
           label == spec_id_human(spec)
       IN
       \E res \in R :
          /\ IF res.exc = <<>> /\ res.returncode = 0
             THEN LET m == Strip(res.stdout) IN
                  /\ measurements' = [measurements EXCEPT ![p] =
                        dict_set(@, label, [cpu_spec |-> spec, measurement_hex |-> m])]
                  /\ results_for_print' = [results_for_print EXCEPT ![p] =
                        Append(@, [cpu_type |-> label, m |-> JStr(m), err |-> JNull])]
                  /\ errors' = errors
             ELSE LET err == IF res.exc # <<>> THEN res.exc
                             ELSE measure_error(a.al, spec, res) IN
                  /\ errors' = [errors EXCEPT ![p] = dict_set(@, label, err)]
                  /\ results_for_print' = [results_for_print EXCEPT ![p] =
                        Append(@, [cpu_type |-> label, m |-> JNull, err |-> JStr(err)])]
                  /\ measurements' = measurements
          /\ idx' = [idx EXCEPT ![p] = @ + 1]
    /\ pc' = [pc EXCEPT ![p] = "measure"]
    /\ UNCHANGED <<fsVars, now, args, specs, calls, docVars, wj, rc, stdout,
                   store_at_start, mergeVars>>

\* main, lines 269-283: the loop has ended; the update_record dict is built,
\* with the clock read at this moment (line 270)
BuildUpdate(p) ==
    /\ pc[p] = "measure"
    /\ idx[p] > Len(specs[p])
    /\ update_rec' = [update_rec EXCEPT ![p] =
          update_record(args[p], specs[p], measurements[p], errors[p], now)]
    /\ pc' = [pc EXCEPT ![p] = "load_merge"]
    /\ UNCHANGED <<fsVars, now, args, loopVars, original, wj, rc, stdout,
                   store_at_start, mergeVars>>

\* mutant: a store file that exists but holds no JSON object ends the run
LoadMerge_dies_on_corrupt_store(p) ==
    /\ pc[p] = "load_merge"
    /\ IF store.t \in {"obj", "absent"}
       THEN /\ original' = [original EXCEPT ![p] =
                  merged_document(store, args[p].vm_title, update_rec[p])]
            /\ pc' = [pc EXCEPT ![p] = "wj_makedirs"]
            /\ rc' = rc
       ELSE /\ Exit(p, 2)
            /\ original' = original
    /\ UNCHANGED <<fsVars, now, args, loopVars, update_rec, wj, stdout,
                   store_at_start, mergeVars>>

\* main, lines 286-289: the store is read at this moment and the update is
\* merged into the entry of the run's title
LoadMerge(p) ==
    /\ pc[p] = "load_merge"
    /\ original' = [original EXCEPT ![p] =
          merged_document(store, args[p].vm_title, update_rec[p])]
    /\ pc' = [pc EXCEPT ![p] = "wj_makedirs"]
    /\ UNCHANGED <<fsVars, now, args, loopVars, update_rec, wj, rc, stdout,
                   store_at_start, mergeVars>>

\* write_json, lines 210-211: os.makedirs succeeds or raises
WjMakedirs(p) ==
    /\ pc[p] = "wj_makedirs"
    /\ \E ok \in BOOLEAN :
          IF ok
          THEN /\ pc' = [pc EXCEPT ![p] = "wj_mkstemp"]
               /\ UNCHANGED <<rc, wj>>
          ELSE /\ wj' = [wj EXCEPT ![p].raised = TRUE]
               /\ Exit(p, 1)
    /\ UNCHANGED <<fsVars, now, args, loopVars, docVars, stdout,
                   store_at_start, mergeVars>>

\* write_json, line 216: mkstemp creates an empty file or raises
WjMkstemp(p) ==
    /\ pc[p] = "wj_mkstemp"
    /\ \E ok \in BOOLEAN :
          IF ok
          THEN /\ tmpf' = [tmpf EXCEPT ![p] = Partial]
               /\ wj' = [wj EXCEPT ![p] = [fd |-> TRUE, tmp_path |-> TRUE,
                                            raised |-> FALSE]]
               /\ pc' = [pc EXCEPT ![p] = "wj_dump"]
          ELSE /\ tmpf' = tmpf
               /\ wj' = [wj EXCEPT ![p].raised = TRUE]
               /\ pc' = [pc EXCEPT ![p] = "wj_finally"]
    /\ UNCHANGED <<store, now, args, loopVars, docVars, rc, stdout,
                   store_at_start, mergeVars>>

\* mutant: the document is written straight to the store path
WjDump_in_place(p) ==
    /\ pc[p] = "wj_dump"
    /\ \E ok \in BOOLEAN :
          IF ok
          THEN /\ store' = JObj(original[p])
               /\ tmpf' = [tmpf EXCEPT ![p] = JObj(original[p])]
               /\ wj' = [wj EXCEPT ![p].fd = FALSE]
               /\ pc' = [pc EXCEPT ![p] = "wj_replace"]
          ELSE /\ store' = Partial
               /\ tmpf' = tmpf
               /\ wj' = [wj EXCEPT ![p].raised = TRUE]
               /\ pc' = [pc EXCEPT ![p] = "wj_finally"]
    /\ UNCHANGED <<now, args, loopVars, docVars, rc, stdout,
                   store_at_start, mergeVars>>

\* write_json, lines 217-219: the document is written and the file closed,
\* or fdopen, json.dump or the close raises with only a prefix written
WjDump(p) ==
    /\ pc[p] = "wj_dump"
    /\ \E ok \in BOOLEAN :
          IF ok
          THEN /\ tmpf' = [tmpf EXCEPT ![p] = JObj(original[p])]
               /\ wj' = [wj EXCEPT ![p].fd = FALSE]
               /\ pc' = [pc EXCEPT ![p] = "wj_replace"]
          ELSE /\ tmpf' = [tmpf EXCEPT ![p] = Partial]
               /\ wj' = [wj EXCEPT ![p].raised = TRUE]
               /\ pc' = [pc EXCEPT ![p] = "wj_finally"]
    /\ UNCHANGED <<store, now, args, loopVars, docVars, rc, stdout,
                   store_at_start, mergeVars>>

\* mutant: the rename folds the entry of the run's title into the store it finds
WjReplace_merges(p) ==
    /\ pc[p] = "wj_replace"
    /\ \E ok \in BOOLEAN :
          IF ok
          THEN /\ store' = IF store.t = "obj" /\ tmpf[p].t = "obj"
                           THEN JObj(dict_set(store.v, args[p].vm_title,
                                              tmpf[p].v[args[p].vm_title]))
                           ELSE tmpf[p]
               /\ tmpf' = [tmpf EXCEPT ![p] = Absent]
               /\ wj' = [wj EXCEPT ![p].tmp_path = FALSE]
          ELSE /\ UNCHANGED fsVars
               /\ wj' = [wj EXCEPT ![p].raised = TRUE]
    /\ pc' = [pc EXCEPT ![p] = "wj_finally"]
    /\ UNCHANGED <<now, args, loopVars, docVars, rc, stdout,
                   store_at_start, mergeVars>>

\* write_json, lines 220-221: os.replace renames the temporary file over the
\* store in one step, or raises and changes nothing
WjReplace(p) ==
    /\ pc[p] = "wj_replace"
    /\ \E ok \in BOOLEAN :
          IF ok
          THEN /\ store' = tmpf[p]
               /\ tmpf' = [tmpf EXCEPT ![p] = Absent]
               /\ wj' = [wj EXCEPT ![p].tmp_path = FALSE]
          ELSE /\ UNCHANGED fsVars
               /\ wj' = [wj EXCEPT ![p].raised = TRUE]
    /\ pc' = [pc EXCEPT ![p] = "wj_finally"]
    /\ UNCHANGED <<now, args, loopVars, docVars, rc, stdout,
                   store_at_start, mergeVars>>

\* the temporary file after the finally block, lines 228-232: os.unlink is
\* called when tmp_path is still set; when it raises (unlinked = FALSE) the
\* error is swallowed and the file stays
after_unlink(file, tmp_path, unlinked) ==
    IF tmp_path /\ unlinked THEN Absent ELSE file

\* write_json, lines 222-232: the finally block, then return or re-raise
WjFinally(p) ==
    /\ pc[p] = "wj_finally"
    /\ \E unlinked \in BOOLEAN :
          tmpf' = [tmpf EXCEPT ![p] = after_unlink(@, wj[p].tmp_path, unlinked)]
    /\ IF wj[p].raised THEN Exit(p, 1)
       ELSE pc' = [pc EXCEPT ![p] = "print"] /\ rc' = rc
    /\ UNCHANGED <<store, now, args, loopVars, docVars, wj, stdout,
                   store_at_start, mergeVars>>

\* mutant: a run with failed measurements ends with the status of die()
Report_fails_on_errors(p) ==
    /\ pc[p] = "print"
    /\ LET n == Len(stdout[p]) IN
       IF n < Len(results_for_print[p])
       THEN /\ stdout' = [stdout EXCEPT ![p] =
                  Append(@, print_line(results_for_print[p][n + 1]))]
            /\ UNCHANGED <<pc, rc>>
       ELSE /\ Exit(p, IF errors[p] = EmptyDict THEN 0 ELSE 2)
            /\ stdout' = stdout
    /\ UNCHANGED <<fsVars, now, args, loopVars, docVars, wj,
                   store_at_start, mergeVars>>

\* main, lines 293-300: one iteration of the loop, which hands one string to
\* print (stdout[p] holds the string of every print call so far); when the
\* list is exhausted main returns and the process ends with status 0
Report(p) ==
    /\ pc[p] = "print"
    /\ LET n == Len(stdout[p]) IN
       IF n < Len(results_for_print[p])
       THEN /\ stdout' = [stdout EXCEPT ![p] =
                  Append(@, print_line(results_for_print[p][n + 1]))]
            /\ UNCHANGED <<pc, rc>>
       ELSE /\ Exit(p, 0)
            /\ stdout' = stdout
    /\ UNCHANGED <<fsVars, now, args, loopVars, docVars, wj,
                   store_at_start, mergeVars>>

\* the process is killed inside write_json; the files stay as they are
Crash(p) ==
    /\ pc[p] \in {"wj_makedirs", "wj_mkstemp", "wj_dump", "wj_replace", "wj_finally"}
    /\ pc' = [pc EXCEPT ![p] = "crashed"]
    /\ rc' = [rc EXCEPT ![p] = 137]
    /\ UNCHANGED <<fsVars, now, args, loopVars, docVars, wj, stdout,
                   store_at_start, mergeVars>>

----------------------------------------------------------------------------
(* Specifications.                                                         *)

\* the command lines of a single run: the title the drawn stores hold a
\* record for (InitStores) or hold no entry for
RunArgs == {a \in AllArgs : a.vm_title = "vm2"}

\* one run of one process, from any store and any of these command lines
Next ==
    \/ Start(1, RunArgs)
    \/ Validate(1)
    \/ LoadSpecs(1)
    \/ Invoke(1)
    \/ ToolEnds(1, ToolResults)
    \/ BuildUpdate(1)
    \/ LoadMerge(1)
    \/ WjMakedirs(1)
    \/ WjMkstemp(1)
    \/ WjDump(1)
    \/ WjReplace(1)
    \/ WjFinally(1)
    \/ Report(1)
    \/ Crash(1)

Spec == Init /\ [][Next]_vars

----------------------------------------------------------------------------
(* Two runs of expected_measurements.py on the same store path.            *)

\* the title each of the two processes is run for
RaceTitle(p) == IF p = 1 THEN "vm1" ELSE "vm2"

\* command lines of the two runs: expected_measurements.py alone at level 2
\* with no boot files, for one of two catalogs
RaceArgs ==
    [p \in Procs |->
        {a \in AllArgs :
            /\ a.vm_title = RaceTitle(p)
            /\ a.al = 2
            /\ a.kernel = <<>>
            /\ ~a.validator
            /\ a.types \in {JList(<<JStr(PaddedMilan)>>),
                             JList(<<JStr(<<"0", "x", "0", "A">>),
                                     JObj([family |-> JInt(25), model |-> JInt(1),
                                           stepping |-> JInt(2)])>>)}}]

\* how the tool ends in the two runs: with the hex alone on stdout, or with a
\* non-zero exit
RaceResults == {res \in ToolResults : res.exc = <<>> /\ Len(res.stdout) <= 4}

InitRace ==
    /\ store \in {Absent,
                  JObj([vm1 |-> JObj(OldRecord), vm3 |-> JObj([note |-> Lit("other")])])}
    /\ tmpf = [p \in Procs |-> Absent]
    /\ now = 0
    /\ InitProc
    /\ minit = JObj(EmptyDict)
    /\ mupd = EmptyDict
    /\ mrec = JObj(EmptyDict)
    /\ NoCall

\* the steps of the two processes interleave in any order
NextRace ==
    \E p \in Procs :
        \/ Start(p, RaceArgs[p])
        \/ LoadSpecs(p)
        \/ Invoke(p)
        \/ ToolEnds(p, RaceResults)
        \/ BuildUpdate(p)
        \/ LoadMerge(p)
        \/ WjMakedirs(p)
        \/ WjMkstemp(p)
        \/ WjDump(p)
        \/ WjReplace(p)
        \/ WjFinally(p)
        \/ Report(p)
        \/ Crash(p)

SpecRace == InitRace /\ [][NextRace]_vars

----------------------------------------------------------------------------
(* merge_vm_record_strict applied to drawn inputs, merge after merge.      *)

FmsSpec == [kind |-> "fms", family |-> 25, model |-> 1, stepping |-> 2]

\* VM entries found in a store: written by the tool, annotated or written by a caller
ExistingEntries ==
    { JObj(EmptyDict),
      JObj(OldRecord),
      JObj([note |-> Lit("keep me"), mode |-> Lit("legacy"), vmm_type |-> Lit("KVM"),
            all |-> Lit("everything")]),
      JObj([owner |-> Lit("ops"), al |-> 4]),
      JStr(Lit("not a record")) }

\* update records: the ones main builds, and dicts with other sets of keys
Updates ==
    { update_record(
          ArgsOf("vm1", [al |-> 2, kernel |-> <<>>, initrd |-> <<>>, append |-> <<>>],
                 Unreadable, Unreadable, FALSE),
          <<MilanSpec>>,
          (Milan :> [cpu_spec |-> MilanSpec, measurement_hex |-> Lit("a1")]),
          EmptyDict, 1),
      update_record(
          ArgsOf("vm1", [al |-> 3, kernel |-> Lit("/vmlinuz"), initrd |-> Lit("/initrd"),
                         append |-> Lit("console=ttyS0")], Unreadable, Unreadable,
                 FALSE),
          <<FmsSpec>>,
          EmptyDict,
          (spec_id_human(FmsSpec) :>
              measure_error(3, FmsSpec, [returncode |-> 1, stdout |-> <<>>,
                                         stderr |-> Lit("unsupported")])),
          2),
      [al |-> 4, vcpus |-> 8],
      [all |-> Lit("nothing"), note |-> Lit("from the update")],
      [measurements |-> EmptyDict, owner |-> Lit("nobody")],
      EmptyDict }

InitMerge ==
    /\ store = Absent
    /\ tmpf = [p \in Procs |-> Absent]
    /\ now = 0
    /\ InitProc
    /\ minit \in ExistingEntries
    /\ mupd = EmptyDict
    /\ mrec = minit
    /\ NoCall

\* one call merge_vm_record_strict(existing, update) on the result of the last
Merge ==
    /\ \E u \in Updates :
          /\ mupd' = u
          /\ mrec' = merge_vm_record_strict(mrec, u)
          /\ mexisting' = mrec
          /\ mexisting_after' = existing_after_merge(mrec, u)
    /\ UNCHANGED <<fsVars, now, pc, args, loopVars, docVars, wj, rc, stdout,
                   store_at_start, minit, nentry, nresult, cmd_calls>>

NextMerge == Merge

SpecMerge == InitMerge /\ [][NextMerge]_vars

----------------------------------------------------------------------------
(* normalize_cpu_spec applied to drawn string entries.                     *)

\* characters of the drawn strings: blank, prefix characters in both cases,
\* hex digits in both cases, a letter that is no hex digit
NormChars == {" ", "\r", "0", "x", "X", "a", "B", "g"}

InitNorm ==
    /\ store = Absent
    /\ tmpf = [p \in Procs |-> Absent]
    /\ now = 0
    /\ InitProc
    /\ minit = JObj(EmptyDict)
    /\ mupd = EmptyDict
    /\ mrec = JObj(EmptyDict)
    /\ mexisting = JNull
    /\ mexisting_after = JNull
    /\ nentry \in {JStr(q) : q \in SeqsUpTo(NormChars, MaxLen)}
    /\ nresult = JNull
    /\ cmd_calls = <<>>

\* one call normalize_cpu_spec(entry)
Normalize ==
    /\ nresult = JNull
    /\ nresult' = normalize_cpu_spec(nentry)
    /\ UNCHANGED <<fsVars, now, pc, args, loopVars, docVars, wj, rc, stdout,
                   store_at_start, minit, mupd, mrec, mexisting, mexisting_after,
                   nentry, cmd_calls>>

NextNorm == Normalize

SpecNorm == InitNorm /\ [][NextNorm]_vars

----------------------------------------------------------------------------
(* run_measure applied to drawn arguments, call after call.                *)

\* number of calls of run_measure that are kept
MaxCalls == 3

\* the specs load_cpu_specs makes of the drawn entries
CmdSpecs ==
    UNION {LET r == load_cpu_specs(JList(<<e>>)) IN
           IF r.ok THEN {r.val[1]} ELSE {} : e \in Entries}

InitCmd ==
    /\ store = Absent
    /\ tmpf = [p \in Procs |-> Absent]
    /\ now = 0
    /\ InitProc
    /\ minit = JObj(EmptyDict)
    /\ mupd = EmptyDict
    /\ mrec = JObj(EmptyDict)
    /\ NoCall

\* one call run_measure(...) up to subprocess.run (lines 97-138): it dies or
\* has built the argument list
RunMeasure ==
    /\ Len(cmd_calls) < MaxCalls
    /\ \E b \in BootParams, spec \in CmdSpecs :
          LET a == ArgsOf("vm1", b, Unreadable, Unreadable, FALSE)
              dies == measure_dies(a.al, spec, a.kernel, a.initrd)
          IN cmd_calls' = Append(cmd_calls,
                 [a |-> a, spec |-> spec, dies |-> dies,
                  cmd |-> IF dies THEN <<>>
                          ELSE measure_cmd(a.measure_py, a.al, a.vcpus, spec, a.ovmf,
                                           a.kernel, a.initrd, a.append)])
    /\ UNCHANGED <<fsVars, now, pc, args, loopVars, docVars, wj, rc, stdout,
                   store_at_start, minit, mupd, mrec, mexisting, mexisting_after,
                   nentry, nresult>>

NextCmd == RunMeasure

SpecCmd == InitCmd /\ [][NextCmd]_vars

----------------------------------------------------------------------------
(* Claims about the merge (SpecMerge).                                     *)

\* the owned set as section 3 of the specification lists it
SpecOwnedKeys == owned_keys \ {"mode", "vmm_type", "all"}

\* the fields of entry e outside the key set K are fields of entry m, unchanged
FieldsKept(e, m, K) ==
    e.t = "obj" =>
        /\ m.t = "obj"
        /\ \A k \in DOMAIN e.v \ K : k \in DOMAIN m.v /\ m.v[k] = e.v[k]

\* C1 as stated: after any number of merges, every field of the existing record
\* whose name is outside the owned set listed in the specification (timestamp,
\* level, vCPU count, boot paths, catalog snapshot and path, measurements,
\* errors) still has its existing value.
C1_Original == FieldsKept(minit, mrec, SpecOwnedKeys)

\* C1 amended: after any number of merges, every field of the existing record
\* whose name is outside the owned set of the code (the listed fields and also
\* mode, vmm_type and all) still has its existing value.
C1_CustomFieldsKept == FieldsKept(minit, mrec, owned_keys)

\* C1 witness: a record with a caller's note has gone through at least two
\* merges (a full update of main, then a partial one) and the note is intact
C1_Witness ==
    /\ minit.t = "obj"
    /\ "note" \in DOMAIN minit.v
    /\ "timestamp_utc" \notin DOMAIN minit.v
    /\ mupd = [al |-> 4, vcpus |-> 8]
    /\ "timestamp_utc" \in DOMAIN mrec.v
    /\ mrec.v["al"] = 4
    /\ mrec.v["note"] = minit.v["note"]

\* the keys of a VM entry (none if the entry is not a dict)
EntryKeys(e) == IF e.t = "obj" THEN DOMAIN e.v ELSE {}

\* C18: for the existing entry e and the update u of any call, merging u into
\* the result again gives the result, the keys of the result are the keys of
\* e together with the owned keys that u holds, and the object e is after the
\* call what it was before.
C18_MergeIdempotent ==
    mexisting # JNull =>
        /\ merge_vm_record_strict(mrec, mupd) = mrec
        /\ mrec.t = "obj"
        /\ DOMAIN mrec.v = EntryKeys(mexisting) \cup (owned_keys \cap DOMAIN mupd)
        /\ \A k \in owned_keys \cap DOMAIN mupd : mrec.v[k] = mupd[k]
        /\ mexisting_after = mexisting

\* C18 witness: a full update of main was merged into an annotated record that
\* an earlier run had written, and changed it
C18_Witness ==
    /\ mexisting.t = "obj"
    /\ "note" \in DOMAIN mexisting.v
    /\ "measurements" \in DOMAIN mexisting.v
    /\ "measurements" \in DOMAIN mupd
    /\ "timestamp_utc" \in DOMAIN mupd
    /\ mrec # mexisting
    /\ mexisting_after = mexisting

----------------------------------------------------------------------------
(* Claims about a run (Spec).                                              *)

\* the run of process p ended normally
Completed(p) == pc[p] = "exit" /\ rc[p] = 0

\* the fields of the VM entry of title in a store file (none: the empty dict)
FieldsOf(file, title) ==
    IF file.t = "obj" /\ title \in DOMAIN file.v /\ file.v[title].t = "obj"
    THEN file.v[title].v
    ELSE EmptyDict

\* the keys of the dict under field k of a record
KeysOf(fields, k) == IF k \in DOMAIN fields THEN DOMAIN fields[k] ELSE {}

\* the labels of the catalog of process p
Labels(p) == {spec_id_human(specs[p][i]) : i \in 1..Len(specs[p])}

\* C2: after a completed run the persisted record of the run's title holds
\* exactly the cpu_types, measurements and errors this run computed, and a label
\* of the previous record that is not a label of the new catalog is a key of
\* neither map.
C2_MeasurementsReplaced ==
    Completed(1) =>
        LET title == args[1].vm_title
            rec == FieldsOf(store, title)
            old == FieldsOf(store_at_start[1], title)
        IN /\ store.t = "obj"
           /\ title \in DOMAIN store.v
           /\ store.v[title].t = "obj"
           /\ rec["cpu_types"] = specs[1]
           /\ rec["measurements"] = measurements[1]
           /\ rec["errors"] = errors[1]
           /\ \A l \in (KeysOf(old, "measurements") \cup KeysOf(old, "errors")) \ Labels(1) :
                 l \notin DOMAIN rec["measurements"] \cup DOMAIN rec["errors"]

\* C2 witness: the previous record had a measurement for a type that left the
\* catalog and an error for EPYC-Milan; the run measured EPYC-Milan with success
C2_Witness ==
    /\ Completed(1)
    /\ Lit("EPYC-Old") \in KeysOf(FieldsOf(store_at_start[1], args[1].vm_title), "measurements")
    /\ Milan \in KeysOf(FieldsOf(store_at_start[1], args[1].vm_title), "errors")
    /\ Milan \in KeysOf(FieldsOf(store, args[1].vm_title), "measurements")
    /\ Lit("EPYC-Old") \notin KeysOf(FieldsOf(store, args[1].vm_title), "measurements")

\* C3: when the store held a JSON object, a completed run for title T leaves
\* every other title present with the same content and adds or removes no
\* title other than T.
C3_OtherTitlesKept ==
    Completed(1) /\ store_at_start[1].t = "obj" =>
        /\ store.t = "obj"
        /\ \A t \in (DOMAIN store.v \cup DOMAIN store_at_start[1].v) \ {args[1].vm_title} :
              /\ t \in DOMAIN store.v
              /\ t \in DOMAIN store_at_start[1].v
              /\ store.v[t] = store_at_start[1].v[t]

\* C3 witness: a run for a title the store did not have, beside a title it had
C3_Witness ==
    /\ Completed(1)
    /\ args[1].vm_title = "vm2"
    /\ store_at_start[1].t = "obj"
    /\ "vm2" \notin DOMAIN store_at_start[1].v
    /\ "vm2" \in DOMAIN store.v
    /\ "vm3" \in DOMAIN store.v
    /\ store.v["vm1"] = JObj(OldRecord)

\* C4: at every step of a run, crashes and failures of write_json included, the
\* store path holds the complete previous content (or nothing, if there was
\* none) or the complete document of this run, never a part of a document.
C4_StoreOldOrNew ==
    pc[1] # "idle" =>
        /\ store.t # "partial"
        /\ store = store_at_start[1] \/ store = JObj(original[1])

\* C4 witness: the process was killed with its temporary file half written
C4_Witness ==
    /\ pc[1] = "crashed"
    /\ tmpf[1] = Partial
    /\ store.t = "obj"
    /\ store = store_at_start[1]

\* C5 as stated: when write_json has returned or raised, no temporary file of
\* the call is left; if it raised the store is as it was, and if it returned
\* the store is the new document.
C5_TempFileGone ==
    pc[1] \in {"print", "exit"} =>
        /\ tmpf[1] = Absent
        /\ wj[1].raised => store = store_at_start[1]
        /\ pc[1] = "print" => store = JObj(original[1])

\* what the code does: the store is as C5 says, and a temporary file is left
\* only by a call that raised after mkstemp and whose os.unlink raised too
C5_StoreKeptTempFileUnlinkedIfPossible ==
    pc[1] \in {"print", "exit"} =>
        /\ wj[1].raised => store = store_at_start[1]
        /\ pc[1] = "print" => store = JObj(original[1])
        /\ tmpf[1] # Absent => wj[1].raised /\ wj[1].tmp_path /\ rc[1] = 1

\* what normalize_cpu_spec makes of each entry of each drawn catalog file
Normalized ==
    [c \in CatalogFiles |->
        IF c.t = "list" THEN [i \in 1..Len(c.v) |-> normalize_cpu_spec(c.v[i])]
        ELSE <<>>]

\* what load_cpu_specs returns for each drawn catalog file
Loaded == [c \in CatalogFiles |-> load_cpu_specs(c)]

\* what load_legal_cpu_types returns for each drawn allowlist file
Allowlists == [l \in LegalFiles |-> load_legal_cpu_types(l)]

\* what validate_cpu_types.main returns for each drawn pair of files
Validated == [c \in CatalogFiles |-> [l \in LegalFiles |-> validate_main(c, l)]]

\* the command line makes the run a hard failure of the measurement tool:
\* the catalog is rejected by load_cpu_specs, or kernel or initrd is missing
\* at level 3 or 4
HardCause(a) ==
    \/ ~Loaded[a.types].ok
    \/ a.al \in {3, 4} /\ (a.kernel = <<>> \/ a.initrd = <<>>)

\* C6: a run whose catalog is malformed or has a duplicate identity, or that
\* lacks kernel or initrd at level 3 or 4, invokes the external tool not once,
\* leaves the store file as it was, records no per-spec outcome, and ends with
\* status 2; and no run that ends with status 2 has invoked the tool or
\* written the store.
C6_HardFailureHasNoEffect ==
    /\ pc[1] # "idle" /\ HardCause(args[1]) =>
          /\ pc[1] \in {"validate", "load_specs", "measure", "exit"}
          /\ pc[1] = "exit" => rc[1] = 2
          /\ calls[1] = <<>>
          /\ store = store_at_start[1]
          /\ tmpf[1] = Absent
          /\ measurements[1] = EmptyDict
          /\ errors[1] = EmptyDict
          /\ results_for_print[1] = <<>>
    /\ rc[1] = 2 => calls[1] = <<>> /\ store = store_at_start[1]

\* C6 witness: a two-entry catalog was loaded, level 4 lacks the initrd, and
\* the run died in run_measure
C6_Witness ==
    /\ pc[1] = "exit"
    /\ rc[1] = 2
    /\ Len(specs[1]) = 2
    /\ args[1].al = 4
    /\ args[1].initrd = <<>>
    /\ calls[1] = <<>>
    /\ errors[1] = EmptyDict
    /\ store.t = "obj"

\* the catalog holds a type name that is not in the (well-formed) allowlist
HasIllegalType(a) ==
    /\ a.types.t = "list"
    /\ Allowlists[a.legal].ok
    /\ LET n == Normalized[a.types]
           legal == Allowlists[a.legal].val
       IN \E i \in 1..Len(n) :
              /\ n[i].ok
              /\ n[i].val.kind = "type"
              /\ \A j \in 1..Len(legal) : legal[j] # n[i].val.type

\* the catalog of process p holds a type name outside the allowlist and the
\* tool has been invoked for it
IllegalTypeInvoked(p) ==
    /\ Allowlists[args[p].legal].ok
    /\ \E i \in 1..Len(calls[p]) :
          /\ specs[p][i].kind = "type"
          /\ \A j \in 1..Len(Allowlists[args[p].legal].val) :
                 Allowlists[args[p].legal].val[j] # specs[p][i].type

\* C7 as stated: a run whose catalog holds a type name outside the allowlist
\* never invokes the external tool, never writes the store and ends with
\* status 2; no measurement is invoked or persisted for a type name outside
\* the allowlist.
C7_IllegalTypeAborts ==
    /\ pc[1] # "idle" /\ HasIllegalType(args[1]) =>
          /\ calls[1] = <<>>
          /\ store = store_at_start[1]
          /\ tmpf[1] = Absent
          /\ pc[1] = "exit" => rc[1] = 2
    /\ ~IllegalTypeInvoked(1)

\* what the code does: validate_cpu_types.main rejects the catalog, and a run
\* that is started through it invokes and writes nothing; expected_measurements.py
\* itself never reads the allowlist
C7_ValidatorRejectsIllegalType ==
    pc[1] # "idle" /\ HasIllegalType(args[1]) =>
        /\ ~Validated[args[1].types][args[1].legal].ok
        /\ gated(1) =>
              /\ calls[1] = <<>>
              /\ store = store_at_start[1]
              /\ tmpf[1] = Absent
              /\ pc[1] \in {"validate", "exit"}
              /\ pc[1] = "exit" => rc[1] = 2

\* the loop of main over the catalog has ended without die()
LoopDone(p) ==
    \/ pc[p] \in {"load_merge", "wj_makedirs", "wj_mkstemp", "wj_dump", "wj_replace",
                  "wj_finally", "print", "crashed"}
    \/ pc[p] = "exit" /\ rc[p] \in {0, 1}

\* the argument list for the i-th spec of the catalog of process p
CallFor(p, i) ==
    measure_cmd(args[p].measure_py, args[p].al, args[p].vcpus, specs[p][i],
                args[p].ovmf, args[p].kernel, args[p].initrd, args[p].append)

\* C8: in a run that got past the hard checks, the external tool has been
\* invoked exactly once per spec of the catalog, in catalog order, whatever
\* the invocations returned; between two invocations exactly the specs before
\* the current one have been invoked and have an outcome, and while the tool
\* runs for the current spec it is the last invoked and has no outcome yet.
C8_OneInvocationPerSpec ==
    /\ LoopDone(1) =>
          /\ Len(calls[1]) = Len(specs[1])
          /\ Len(results_for_print[1]) = Len(specs[1])
          /\ \A i \in 1..Len(specs[1]) : calls[1][i] = CallFor(1, i)
    /\ pc[1] = "measure" =>
          /\ Len(calls[1]) = idx[1] - 1
          /\ Len(results_for_print[1]) = idx[1] - 1
          /\ \A i \in 1..(idx[1] - 1) : calls[1][i] = CallFor(1, i)
    /\ pc[1] = "tool" =>
          /\ idx[1] <= Len(specs[1])
          /\ Len(calls[1]) = idx[1]
          /\ Len(results_for_print[1]) = idx[1] - 1
          /\ \A i \in 1..idx[1] : calls[1][i] = CallFor(1, i)

\* C8 witness: the first of two invocations failed, and the tool is running
\* for the second spec
C8_Witness ==
    /\ pc[1] = "tool"
    /\ Len(specs[1]) = 2
    /\ idx[1] = 2
    /\ Len(results_for_print[1]) = 1
    /\ results_for_print[1][1].m.t = "null"
    /\ Len(calls[1]) = 2
    /\ calls[1][2] = CallFor(1, 2)

\* C9: a run whose loop over the catalog has ended never exits with status 2,
\* whatever the external tool returned; unless write_json itself raised, it
\* exits with status 0 and the store holds the merged document with the errors
\* of this run under the run's title.
C9_SoftFailuresNotFatal ==
    pc[1] = "exit" /\ specs[1] # <<>> /\ idx[1] > Len(specs[1]) =>
        /\ rc[1] # 2
        /\ ~wj[1].raised =>
              /\ rc[1] = 0
              /\ store = JObj(original[1])
              /\ args[1].vm_title \in DOMAIN store.v
              /\ FieldsOf(store, args[1].vm_title)["errors"] = errors[1]

\* C9 witness: the tool failed for both specs of the catalog and the run
\* ended with status 0 and the errors persisted
C9_Witness ==
    /\ Completed(1)
    /\ Len(specs[1]) = 2
    /\ measurements[1] = EmptyDict
    /\ Cardinality(DOMAIN errors[1]) = 2
    /\ FieldsOf(store, args[1].vm_title)["errors"] = errors[1]

\* C10 as stated: after a completed run that passed the validator, every
\* catalog spec has exactly one persisted outcome: its label is a key of
\* measurements iff its invocation exited with status zero and a key of errors
\* iff it failed, no label is a key of both maps, and the two maps have n keys
\* together.
C10_OneOutcomePerSpec ==
    Completed(1) /\ gated(1) =>
        LET rec == FieldsOf(store, args[1].vm_title)
            n == Len(specs[1])
        IN /\ \A i \in 1..n :
                 LET label == spec_id_human(specs[1][i])
                     succeeded == results_for_print[1][i].m.t # "null"
                 IN /\ label \in DOMAIN rec["measurements"] <=> succeeded
                    /\ label \in DOMAIN rec["errors"] <=> ~succeeded
           /\ DOMAIN rec["measurements"] \cap DOMAIN rec["errors"] = {}
           /\ Cardinality(DOMAIN rec["measurements"])
                + Cardinality(DOMAIN rec["errors"]) = n

\* two entries of the catalog file normalise to the same identity string
HasDuplicate(file) ==
    LET n == Normalized[file] IN
    \E i, j \in 1..Len(n) :
        /\ i < j
        /\ n[i].ok
        /\ n[j].ok
        /\ spec_id(n[i].val) = spec_id(n[j].val)

\* C11: a catalog in which two entries normalise to the same identity string,
\* in whatever order and input shape, is rejected by validate_cpu_types.main
\* and by load_cpu_specs, and the run ends with status 2 before any invocation;
\* the specs of a catalog that load_cpu_specs accepted have pairwise distinct
\* identity strings.
C11_DuplicateRejected ==
    /\ pc[1] # "idle" /\ HasDuplicate(args[1].types) =>
          /\ ~Loaded[args[1].types].ok
          /\ gated(1) => ~Validated[args[1].types][args[1].legal].ok
          /\ pc[1] \in {"validate", "load_specs", "exit"}
          /\ pc[1] = "exit" => rc[1] = 2
          /\ specs[1] = <<>>
          /\ calls[1] = <<>>
    /\ \A i, j \in 1..Len(specs[1]) :
          i < j => spec_id(specs[1][i]) # spec_id(specs[1][j])

\* C11 witness: a signature object followed by the hex string of the same
\* signature was rejected by load_cpu_specs in a run without the validator
C11_Witness ==
    /\ pc[1] = "exit"
    /\ rc[1] = 2
    /\ ~gated(1)
    /\ args[1].types.t = "list"
    /\ Len(args[1].types.v) = 2
    /\ args[1].types.v[1].t = "obj"
    /\ args[1].types.v[2].t = "str"
    /\ HasDuplicate(args[1].types)

\* the allowlist file is a non-empty list of strings that are non-empty when trimmed
WellFormedAllowlist(file) ==
    /\ file.t = "list"
    /\ file.v # <<>>
    /\ \A j \in 1..Len(file.v) : file.v[j].t = "str" /\ Strip(file.v[j].v) # <<>>

\* the catalog file is a non-empty list of entries that all normalise, with
\* pairwise distinct identity strings
DuplicateFree(file) ==
    /\ file.t = "list"
    /\ file.v # <<>>
    /\ LET n == Normalized[file] IN
       /\ \A i \in 1..Len(n) : n[i].ok
       /\ \A i, j \in 1..Len(n) : i < j => spec_id(n[i].val) # spec_id(n[j].val)

\* the kinds of the specs of a catalog file whose entries all normalise
KindsOf(file) == LET n == Normalized[file] IN {n[i].val.kind : i \in 1..Len(n)}

\* the catalog holds a Type spec whose trimmed name equals no trimmed entry of
\* the allowlist, character for character
TypeOutsideAllowlist(types, legal) ==
    LET n == Normalized[types] IN
    \E i \in 1..Len(n) :
        /\ n[i].val.kind = "type"
        /\ \A j \in 1..Len(legal.v) : Strip(legal.v[j].v) # Strip(types.v[i].v)

\* C12: with a well-formed allowlist, validate_cpu_types.main rejects a
\* duplicate-free catalog with the illegal-type error iff the catalog holds a
\* Type spec whose trimmed name is not, case-sensitively, a trimmed entry of the
\* allowlist, and accepts it otherwise; a catalog of Sig and Fms specs alone is
\* accepted whatever the allowlist holds; the run goes on past the validator
\* exactly in the accepted case.
C12_IllegalIffTypeOutsideAllowlist ==
    pc[1] # "idle" /\ gated(1) /\ DuplicateFree(args[1].types)
                   /\ WellFormedAllowlist(args[1].legal) =>
        LET r == Validated[args[1].types][args[1].legal]
            illegal == TypeOutsideAllowlist(args[1].types, args[1].legal)
        IN /\ illegal => r = Die("Illegal cpu type string in cpu-types.json")
           /\ ~illegal => r.ok
           /\ "type" \notin KindsOf(args[1].types) => r.ok
           /\ pc[1] # "validate" =>
                 ((pc[1] = "exit" /\ rc[1] = 2 /\ specs[1] = <<>>) <=> illegal)

\* C12 witness: an Fms spec passed an allowlist that has no entry for it, and
\* the type EPYC-Milan after it was rejected by an allowlist that holds
\* epyc-milan
C12_Witness ==
    /\ pc[1] = "exit"
    /\ rc[1] = 2
    /\ gated(1)
    /\ ~HardCause(args[1])
    /\ specs[1] = <<>>
    /\ WellFormedAllowlist(args[1].legal)
    /\ \E j \in 1..Len(args[1].legal.v) : Lower(args[1].legal.v[j].v) = Lower(Milan)
    /\ \A j \in 1..Len(args[1].legal.v) : Strip(args[1].legal.v[j].v) # Milan
    /\ TypeOutsideAllowlist(args[1].types, args[1].legal)
    /\ DuplicateFree(args[1].types)
    /\ Len(args[1].types.v) = 2
    /\ args[1].types.v[1].t = "obj"
    /\ args[1].types.v[2] = JStr(PaddedMilan)

\* flags of the external tool
BootFlags == {Lit("--kernel"), Lit("--initrd"), Lit("--append")}
SelectorFlags == {Lit("--vcpu-type"), Lit("--vcpu-sig"), Lit("--vcpu-family"),
                  Lit("--vcpu-model"), Lit("--vcpu-stepping")}

\* the elements of an argument list that belong to a set of flags, in order
FlagsIn(cmd, F) == SelectSeq(cmd, LAMBDA x : x \in F)

\* the CPU-selector group of a spec: its flags with their values
SelectorGroup(spec) ==
    IF spec.kind = "type" THEN <<Lit("--vcpu-type"), spec.type>>
    ELSE IF spec.kind = "sig" THEN <<Lit("--vcpu-sig"), spec.sig>>
    ELSE <<Lit("--vcpu-family"), DecOf(spec.family), Lit("--vcpu-model"),
           DecOf(spec.model), Lit("--vcpu-stepping"), DecOf(spec.stepping)>>

\* the selector flags of a spec, without values
SelectorFlagsOf(spec) ==
    IF spec.kind = "type" THEN <<Lit("--vcpu-type")>>
    ELSE IF spec.kind = "sig" THEN <<Lit("--vcpu-sig")>>
    ELSE <<Lit("--vcpu-family"), Lit("--vcpu-model"), Lit("--vcpu-stepping")>>

\* the arguments that do not depend on the spec or on the boot files
FixedArguments(a) ==
    <<Lit("python3"), a.measure_py, Lit("--mode"), Lit("snp"), Lit("--vmm-type"),
      Lit("QEMU"), Lit("--vcpus"), DecOf(a.vcpus), Lit("--ovmf"), a.ovmf,
      Lit("--output-format"), Lit("hex")>>

\* C13: every argument list run_measure builds holds exactly the selector
\* group of its spec's variant (and no other selector flag); at level 2 it is
\* the fixed arguments and the selector group, with none of --kernel,
\* --initrd, --append, and two level-2 calls for the same spec build the same
\* list whatever kernel, initrd and cmdline each was given; at level 3 or 4
\* with non-empty kernel and initrd the list ends with --kernel, --initrd and
\* --append with the values of the command line.
C13_ArgumentList ==
    /\ \A i \in 1..Len(cmd_calls) :
          LET cmd == cmd_calls[i].cmd
              spec == cmd_calls[i].spec
              a == cmd_calls[i].a
              g == SelectorGroup(spec)
          IN /\ a.al = 2 => ~cmd_calls[i].dies
             /\ a.al \in {3, 4} /\ a.kernel # <<>> /\ a.initrd # <<>> => ~cmd_calls[i].dies
             /\ ~cmd_calls[i].dies =>
                   /\ FlagsIn(cmd, SelectorFlags) = SelectorFlagsOf(spec)
                   /\ a.al = 2 =>
                         /\ FlagsIn(cmd, BootFlags) = <<>>
                         /\ cmd = FixedArguments(a) \o g
                   /\ a.al \in {3, 4} =>
                         /\ a.kernel # <<>> /\ a.initrd # <<>>
                         /\ cmd = FixedArguments(a) \o g
                                    \o <<Lit("--kernel"), a.kernel, Lit("--initrd"),
                                         a.initrd, Lit("--append"), a.append>>
    /\ \A i, j \in 1..Len(cmd_calls) :
          /\ cmd_calls[i].a.al = 2
          /\ cmd_calls[j].a.al = 2
          /\ cmd_calls[i].spec = cmd_calls[j].spec
          => cmd_calls[i].cmd = cmd_calls[j].cmd

\* C13 witness: for one Fms spec, a level-2 call that was given kernel, initrd
\* and cmdline and a level-2 call that was given none built the same list,
\* and a level-4 call with kernel and initrd built the list with the three
\* boot arguments
C13_Witness ==
    /\ Len(cmd_calls) = 3
    /\ \A i \in 1..3 : cmd_calls[i].spec.kind = "fms" /\ ~cmd_calls[i].dies
    /\ cmd_calls[1].a.al = 2
    /\ cmd_calls[1].a.kernel # <<>>
    /\ cmd_calls[1].a.initrd # <<>>
    /\ cmd_calls[1].a.append # <<>>
    /\ cmd_calls[2].a.al = 2
    /\ cmd_calls[2].a.kernel = <<>>
    /\ cmd_calls[1].cmd = cmd_calls[2].cmd
    /\ cmd_calls[3].a.al = 4
    /\ cmd_calls[3].cmd = cmd_calls[1].cmd
                            \o <<Lit("--kernel"), cmd_calls[3].a.kernel,
                                 Lit("--initrd"), cmd_calls[3].a.initrd,
                                 Lit("--append"), cmd_calls[3].a.append>>

\* C15: when the store file is missing, cannot be read or parsed, or holds
\* JSON that is not an object, load_original yields the empty document and the
\* run goes on: it ends with status 2 only for a cause in the catalog, the
\* boot files or the validator, the document it hands to write_json holds
\* exactly the title of this run, and so does the store after a completed run.
C15_CorruptStoreIsEmpty ==
    pc[1] # "idle" /\ store_at_start[1].t # "obj" =>
        /\ load_original(store_at_start[1]) = EmptyDict
        /\ rc[1] = 2 =>
              \/ HardCause(args[1])
              \/ gated(1) /\ ~Validated[args[1].types][args[1].legal].ok
        /\ LoopDone(1) /\ pc[1] # "load_merge" =>
              DOMAIN original[1] = {args[1].vm_title}
        /\ Completed(1) => store.t = "obj" /\ DOMAIN store.v = {args[1].vm_title}

\* C15 witness: a run that found an unreadable store file has completed and
\* the store holds the record of its title alone
C15_Witness ==
    /\ Completed(1)
    /\ store_at_start[1] = Unreadable
    /\ store.t = "obj"
    /\ DOMAIN store.v = {args[1].vm_title}
    /\ FieldsOf(store, args[1].vm_title)["cpu_types"] = specs[1]

\* the number of line breaks in a string
RECURSIVE Newlines(_)
Newlines(s) ==
    IF s = <<>> THEN 0
    ELSE (IF Head(s) = "\n" THEN 1 ELSE 0) + Newlines(Tail(s))

\* the text on stdout: print writes each string and a line break after it
RECURSIVE StdoutText(_)
StdoutText(prints) ==
    IF prints = <<>> THEN <<>>
    ELSE Head(prints) \o <<"\n">> \o StdoutText(Tail(prints))

\* the lines of a text; cur is the line read so far
RECURSIVE LinesOf(_, _)
LinesOf(text, cur) ==
    IF text = <<>> THEN (IF cur = <<>> THEN <<>> ELSE <<cur>>)
    ELSE IF Head(text) = "\n" THEN <<cur>> \o LinesOf(Tail(text), <<>>)
    ELSE LinesOf(Tail(text), Append(cur, Head(text)))

\* the string printed for the i-th spec of process p is its label, a tab, and
\* then the measurement if the invocation succeeded, or ERROR, a tab and the
\* error message with every line break replaced by the two characters \n
ShowsOutcome(p, i, line) ==
    LET label == spec_id_human(specs[p][i])
        out == results_for_print[p][i]
        n == Len(label)
    IN /\ SubSeq(line, 1, n + 1) = label \o <<"\t">>
       /\ out.m.t # "null" => line = label \o <<"\t">> \o out.m.v
       /\ out.m.t = "null" =>
             /\ SubSeq(line, n + 2, n + 3) = <<"ERROR", "\t">>
             /\ Len(line) = n + 3 + Len(out.err.v) + Newlines(out.err.v)
             /\ Newlines(SubSeq(line, n + 4, Len(line))) = 0
             /\ \A k \in 1..Len(out.err.v) :
                   out.err.v[k] # "\n" =>
                       line[n + 3 + k + Newlines(SubSeq(out.err.v, 1, k))]
                           = out.err.v[k]

\* C17 as stated: the stdout of a completed run is exactly one line per
\* catalog spec, in catalog order: the i-th line is the label of the i-th
\* spec, a tab, and then the measurement hex if the i-th invocation succeeded,
\* or ERROR, a tab and the single-line error message if it failed.
C17_OneLinePerSpec ==
    Completed(1) =>
        LET lines == LinesOf(StdoutText(stdout[1]), <<>>) IN
        /\ Len(lines) = Len(specs[1])
        /\ \A i \in 1..Len(specs[1]) : ShowsOutcome(1, i, lines[i])

\* what the code does: one print call per catalog spec, in catalog order, as
\* far as the loop of lines 294-300 has come; only the error message is made
\* a single line, the label and the measurement are printed as they are
C17_OnePrintPerSpec ==
    /\ pc[1] \notin {"print", "exit"} => stdout[1] = <<>>
    /\ Len(stdout[1]) <= Len(results_for_print[1])
    /\ Completed(1) => Len(stdout[1]) = Len(specs[1])
    /\ \A i \in 1..Len(stdout[1]) : ShowsOutcome(1, i, stdout[1][i])

----------------------------------------------------------------------------
(* Claims about two concurrent runs (SpecRace).                            *)

\* C14: when two runs for different titles interleave on one store path, the
\* store file never holds a part of a document, and it changes only by the
\* rename of some run, which leaves it exactly the complete document that run
\* built from the store it had loaded: the last rename wins.
C14_LastRenameWins ==
    [][ /\ store'.t # "partial"
        /\ store' # store =>
              \E p \in Procs :
                  /\ pc[p] = "wj_replace"
                  /\ pc'[p] = "wj_finally"
                  /\ store' = JObj(original[p]) ]_vars

\* C14 witness: both runs loaded the store before either renamed, both ended
\* with status 0, run 1 renamed last, and the store has no entry for the title
\* of run 2
C14_Witness ==
    /\ Completed(1)
    /\ Completed(2)
    /\ store = JObj(original[1])
    /\ store # JObj(original[2])
    /\ "vm1" \in DOMAIN store.v
    /\ "vm2" \notin DOMAIN store.v
    /\ "vm2" \in DOMAIN original[2]
    /\ "vm1" \notin DOMAIN original[2]

----------------------------------------------------------------------------
(* Claims about normalize_cpu_spec (SpecNorm).                             *)

LowerHexDigits == {"0", "1", "2", "3", "4", "5", "6", "7", "8", "9",
                   "a", "b", "c", "d", "e", "f"}

\* the hex pattern read without regard to case: 0x or 0X, then one or more
\* hex digits of either case
HexPatternAnyCase(s) ==
    /\ Len(s) >= 3
    /\ Lower(SubSeq(s, 1, 2)) = <<"0", "x">>
    /\ \A i \in 3..Len(s) : LowerChar(s[i]) \in LowerHexDigits

\* the hex pattern with the prefix as written: 0x, then one or more hex digits
\* of either case
HexPatternLowerPrefix(s) ==
    /\ Len(s) >= 3
    /\ SubSeq(s, 1, 2) = <<"0", "x">>
    /\ \A i \in 3..Len(s) : LowerChar(s[i]) \in LowerHexDigits

\* what a string entry with trimmed value s normalises to when hex tells
\* whether s is a signature
NormalizedAs(result, s, hex) ==
    IF s = <<>> THEN ~result.ok
    ELSE IF hex THEN result = Ok([kind |-> "sig", sig |-> Lower(s)])
    ELSE result = Ok([kind |-> "type", type |-> s])

\* C16 as stated: a string entry that is non-empty when trimmed yields Sig with
\* the lowercased trimmed value iff the trimmed string matches the hex pattern
\* without regard to case, and Type with the trimmed string otherwise; a string
\* that is empty when trimmed fails.
C16_Original ==
    nresult # JNull =>
        NormalizedAs(nresult, Strip(nentry.v), HexPatternAnyCase(Strip(nentry.v)))

\* what the code does on the inputs of C16: a string entry that is non-empty
\* when trimmed yields Sig with the lowercased trimmed value iff the trimmed
\* string is the lowercase prefix 0x followed by one or more hex digits of
\* either case, and Type with the trimmed string otherwise (also when it
\* starts with 0X); a string that is empty when trimmed fails.
C16_StringNormalization ==
    nresult # JNull =>
        NormalizedAs(nresult, Strip(nentry.v), HexPatternLowerPrefix(Strip(nentry.v)))

\* a padded string with hex digits of both cases became a Sig
\* with the trimmed, lowercased value
Norm_SigReached ==
    /\ nentry = JStr(<<" ", "0", "x", "B">>)
    /\ nresult = Ok([kind |-> "sig", sig |-> <<"0", "x", "b">>])

====
